---- MODULE Spec2Model ----
(***************************************************************************)
(* Model of the Mercado Livre offer search service (scraper.py, main.py):  *)
(* the pagination loop of scrape_mercadolivre, the per-page parser         *)
(* parse_products_from_api and the per-item extractor                      *)
(* _extract_product_from_api with its helpers.                             *)
(*                                                                         *)
(* JSON values are tagged records so that every field has one shape:       *)
(*   [tag |-> "none"]  the key is missing or null (dict.get gives None)    *)
(*   [tag |-> "num"]   a number, in val (prices are whole currency units)  *)
(*   [tag |-> "str"]   a non-empty string where a number is expected       *)
(* Strings that the code edits (the title) are sequences of characters.    *)
(***************************************************************************)
EXTENDS Integers, Sequences, FiniteSets, TLC

VARIABLES pc, max_pages, min_discount, page, offset, total, data,
          products, all_products, trace, stop, result, item, product

vars == <<pc, max_pages, min_discount, page, offset, total, data,
          products, all_products, trace, stop, result, item, product>>

-----------------------------------------------------------------------------
(* Bounds of the model *)

\* largest amount of the structurally varied items
MaxAmount == 3
\* largest price of the items that vary only price and original_price
MaxPrice == 100
\* longest raw title
MaxTitleLen == 2
\* longest result list handed to parse_products_from_api on its own
MaxItems == 3
\* longest accumulated list handed to the filter/sort stage on its own
MaxProducts == 3
\* the API reports totals up to MaxTotalPages full pages (plus one item)
MaxTotalPages == 5

(* Program constants *)

ITEMS_PER_PAGE == 50
MAX_PAGES == 3
\* main.py: Query(ge=1, le=5) for max_pages, Query(ge=0, le=100) for min_discount
MaxPagesLimit == 5
MaxDiscountLimit == 100

-----------------------------------------------------------------------------
(* JSON values *)

None == [tag |-> "none", val |-> 0]
Num(n) == [tag |-> "num", val |-> n]
NonNum == [tag |-> "str", val |-> 0]

\* Python truthiness of a value read with dict.get: None and 0 are falsy,
\* a non-empty string and a non-zero number are truthy.
Truthy(v) == CASE v.tag = "none" -> FALSE
               [] v.tag = "num" -> v.val # 0
               [] OTHER -> TRUE

\* Outcome of a helper that may raise
Raise == [tag |-> "raise", val |-> None]
Ok(v) == [tag |-> "ok", val |-> v]

-----------------------------------------------------------------------------
(* Product and the helpers of the extractor *)

\* int(round(num / den)) for num >= 0, den > 0.  Python rounds the double
\* nearest to the quotient, half to even.  The double computed by
\* ((original - price) / original) * 100 differs from the exact quotient by
\* far less than the distance 1/(2*den) between a non-tie quotient and the
\* nearest half, so away from ties the result is the nearest integer; at an
\* exact half the double may lie on either side (original 40, price 17
\* gives 57; original 8, price 7 gives 12), so both neighbours are outcomes.
Round(num, den) ==
    LET q == num \div den
        r == num % den
    IN  IF 2 * r < den THEN {q}
        ELSE IF 2 * r > den THEN {q + 1}
        ELSE {q, q + 1}

\* Mutant: int() without round() truncates.
CalculateDiscountTruncating(price, original_price) ==
    IF original_price.tag = "none" \/ original_price.val <= 0
       \/ original_price.val <= price
    THEN {0}
    ELSE {((original_price.val - price) * 100) \div original_price.val}

\* The possible values of _calculate_discount(price, original_price);
\* price is a number, original_price is None or a number.
_calculate_discount(price, original_price) ==
    IF original_price.tag = "none" \/ original_price.val <= 0
       \/ original_price.val <= price
    THEN {0}
    ELSE Round((original_price.val - price) * 100, original_price.val)

\* `if v and v > 0: return float(v)` on a value read with dict.get:
\* "take" returns it, "skip" falls through, "raise" is the TypeError of
\* comparing a string with 0.
PositiveCheck(v) ==
    IF ~Truthy(v) THEN "skip"
    ELSE IF v.tag = "str" THEN "raise"
    ELSE IF v.val > 0 THEN "take"
    ELSE "skip"

\* The loop over prices_info["prices"] from entry i on.
RECURSIVE StandardAmount(_, _)
StandardAmount(price_list, i) ==
    IF i > Len(price_list) THEN Ok(None)
    ELSE IF price_list[i].type = "standard"
         THEN CASE PositiveCheck(price_list[i].amount) = "take"
                     -> Ok(price_list[i].amount)
                [] PositiveCheck(price_list[i].amount) = "raise" -> Raise
                [] OTHER -> StandardAmount(price_list, i + 1)
         ELSE StandardAmount(price_list, i + 1)

\* Mutant: the prices collection is consulted before sale_price.
ExtractOriginalPricePricesFirst(it) ==
    CASE PositiveCheck(it.original_price) = "take" -> Ok(it.original_price)
      [] PositiveCheck(it.original_price) = "raise" -> Raise
      [] OTHER ->
           LET std == IF it.prices.tag = "dict" /\ it.prices.prices # <<>>
                      THEN StandardAmount(it.prices.prices, 1)
                      ELSE Ok(None)
           IN  IF std # Ok(None) THEN std
               ELSE IF it.sale_price.tag = "dict"
                    THEN CASE PositiveCheck(it.sale_price.regular_amount) = "take"
                                -> Ok(it.sale_price.regular_amount)
                           [] PositiveCheck(it.sale_price.regular_amount) = "raise"
                                -> Raise
                           [] OTHER -> Ok(None)
                    ELSE Ok(None)

_extract_original_price(it) ==
    CASE PositiveCheck(it.original_price) = "take" -> Ok(it.original_price)
      [] PositiveCheck(it.original_price) = "raise" -> Raise
      [] OTHER ->
           LET regular == IF it.sale_price.tag = "dict"
                          THEN PositiveCheck(it.sale_price.regular_amount)
                          ELSE "skip"
           IN  CASE regular = "take" -> Ok(it.sale_price.regular_amount)
                 [] regular = "raise" -> Raise
                 [] OTHER ->
                      IF it.prices.tag = "dict" /\ it.prices.prices # <<>>
                      THEN StandardAmount(it.prices.prices, 1)
                      ELSE Ok(None)

\* item.get("permalink", item.get("link", ""))
_build_product_link(it) ==
    IF it.permalink.tag = "str" THEN it.permalink.val
    ELSE IF it.link.tag = "str" THEN it.link.val
    ELSE ""

\* str.strip(): leading and trailing blanks removed
RECURSIVE LStrip(_)
LStrip(s) == IF s # <<>> /\ Head(s) = " " THEN LStrip(Tail(s)) ELSE s

RECURSIVE RStrip(_)
RStrip(s) ==
    IF s # <<>> /\ s[Len(s)] = " " THEN RStrip(SubSeq(s, 1, Len(s) - 1)) ELSE s

Strip(s) == RStrip(LStrip(s))

Product(title, link, price, original_price, discount_percent) ==
    [title |-> title, link |-> link, price |-> price,
     original_price |-> original_price, discount_percent |-> discount_percent]

\* Outcomes of _extract_product_from_api: an exception, None, or a Product
NoProduct == Product(<<>>, "", 0, None, 0)
Raised == [tag |-> "raise", product |-> NoProduct]
Rejected == [tag |-> "none", product |-> NoProduct]
Extracted(p) == [tag |-> "product", product |-> p]

\* Values of the title, permalink and link keys
NoText == [tag |-> "none", val |-> <<>>]
NullText == [tag |-> "null", val |-> <<>>]
Text(s) == [tag |-> "str", val |-> s]
NoLink == [tag |-> "none", val |-> ""]
Link(s) == [tag |-> "str", val |-> s]

\* Mutant: the nested sale_price amount is preferred over the direct price.
CurrentPriceSaleFirst(it) ==
    IF it.sale_price.tag = "dict" /\ it.sale_price.amount.tag = "num"
       /\ it.sale_price.amount.val > 0
    THEN Ok(it.sale_price.amount)
    ELSE IF it.price.tag = "str" THEN Raise
    ELSE IF it.price.tag = "num" /\ it.price.val > 0 THEN Ok(it.price)
    ELSE Ok(None)

\* The current price of lines 254-263: the direct price, else the nested
\* sale_price amount; "none" is the early `return None`.
CurrentPrice(it) ==
    IF it.price.tag = "str" THEN Raise
    ELSE IF it.price.tag = "num" /\ it.price.val > 0 THEN Ok(it.price)
    ELSE LET price == IF it.sale_price.tag = "dict"
                      THEN it.sale_price.amount
                      ELSE it.price
         IN  IF price.tag = "none" THEN Ok(None)
             ELSE IF price.tag = "str" THEN Raise
             ELSE IF price.val <= 0 THEN Ok(None)
             ELSE Ok(price)

\* Lines 268-270: an original price not above the current price is dropped.
SanityCheck(price, original_price) ==
    IF original_price.tag # "none" /\ original_price.val <= price
    THEN None
    ELSE original_price

\* The possible outcomes of _extract_product_from_api(item).  An item that
\* is no JSON object, or whose title is null, raises AttributeError.
_extract_product_from_api(it) ==
    IF it.kind # "dict" \/ it.title.tag = "null" THEN {Raised}
    ELSE LET title == Strip(it.title.val) IN
         IF title = <<>> THEN {Rejected}
         ELSE LET link == _build_product_link(it)
                  cur == CurrentPrice(it)
              IN  IF cur = Raise THEN {Raised}
                  ELSE IF cur = Ok(None) THEN {Rejected}
                  ELSE LET price == cur.val.val
                           orig == _extract_original_price(it)
                       IN  IF orig = Raise THEN {Raised}
                           ELSE LET original_price == SanityCheck(price, orig.val)
                                IN  { Extracted(Product(title, link, price,
                                                        original_price, d)) :
                                      d \in _calculate_discount(price, original_price) }

-----------------------------------------------------------------------------
(* Raw items of the API *)

NoSale == [tag |-> "none", amount |-> None, regular_amount |-> None]
Sale(amount, regular) ==
    [tag |-> "dict", amount |-> amount, regular_amount |-> regular]
NoPrices == [tag |-> "none", prices |-> <<>>]
Prices(l) == [tag |-> "dict", prices |-> l]
PriceEntry(type, amount) == [type |-> type, amount |-> amount]

Item(title, permalink, link, price, sale_price, original_price, prices) ==
    [kind |-> "dict", title |-> title, permalink |-> permalink, link |-> link,
     price |-> price, sale_price |-> sale_price,
     original_price |-> original_price, prices |-> prices]

\* An entry of results that is no JSON object (null, a number, a string)
NotAnObject ==
    [Item(NoText, NoLink, NoLink, None, NoSale, None, NoPrices)
       EXCEPT !.kind = "other"]

Amounts == {None} \cup {Num(n) : n \in -1 .. MaxAmount}
Entries == {PriceEntry(ty, a) : ty \in {"standard", "promotion"}, a \in Amounts}
PriceLists ==
    {<<>>} \cup {<<e>> : e \in Entries} \cup {<<e, f>> : e \in Entries, f \in Entries}

RECURSIVE SeqsUpTo(_, _)
SeqsUpTo(S, n) ==
    IF n = 0 THEN {<<>>}
    ELSE LET shorter == SeqsUpTo(S, n - 1)
         IN  shorter \cup {Append(s, x) : s \in shorter, x \in S}

Titles == {NoText, NullText} \cup {Text(s) : s \in SeqsUpTo({" ", "a"}, MaxTitleLen)}

SalePrices == {NoSale} \cup {Sale(a, r) : a \in Amounts, r \in Amounts}
PricesInfos == {NoPrices} \cup {Prices(l) : l \in PriceLists}
Plain(price, sale_price, original_price, prices) ==
    Item(Text(<<"a">>), NoLink, NoLink, price, sale_price, original_price, prices)

\* Items that vary where the prices are found
PricedItem(it) ==
    \E p \in Amounts \cup {NonNum}, s \in SalePrices, o \in Amounts,
       pr \in PricesInfos : it = Plain(p, s, o, pr)

\* Items that vary the title and the links
TitledItem(it) ==
    \E ti \in Titles, pl \in {NoLink, Link("p")}, l \in {NoLink, Link("l")} :
        it = Item(ti, pl, l, Num(1), NoSale, None, NoPrices)

\* Items that vary the two prices of the discount over a wide range
DiscountedItem(it) ==
    \E p \in 1 .. MaxPrice, o \in {None} \cup {Num(n) : n \in 0 .. MaxPrice} :
        it = Plain(Num(p), NoSale, o, NoPrices)

\* Items with a string where a number is expected, and a non-object
OddItems ==
    { NotAnObject,
      Plain(None, Sale(NonNum, None), None, NoPrices),
      Plain(Num(1), NoSale, NonNum, NoPrices),
      Plain(Num(1), Sale(None, NonNum), None, NoPrices),
      Plain(Num(1), NoSale, None, Prices(<<PriceEntry("standard", NonNum)>>)),
      Plain(Num(1), Sale(None, NonNum), Num(2), NoPrices),
      Plain(Num(1), Sale(None, Num(2)), None,
            Prices(<<PriceEntry("standard", NonNum)>>)) }

AnyItem(it) ==
    PricedItem(it) \/ TitledItem(it) \/ DiscountedItem(it) \/ it \in OddItems

-----------------------------------------------------------------------------
(* State *)

Pending == [tag |-> "pending", product |-> NoProduct]
\* fetch_search_page returned None
NoData == [tag |-> "none", total |-> None, results |-> <<>>]

\* The variables a specification does not use
IdlePipeline ==
    /\ max_pages = MAX_PAGES
    /\ min_discount = 0
    /\ page = 0
    /\ offset = 0
    /\ total = None
    /\ all_products = <<>>
    /\ trace = <<>>
    /\ stop = "none"
    /\ result = <<>>

IdleItem ==
    /\ item = NotAnObject
    /\ product = Pending

-----------------------------------------------------------------------------
(* _extract_product_from_api on one item *)

InitItem ==
    /\ pc = "item"
    /\ AnyItem(item)
    /\ product = Pending
    /\ data = NoData
    /\ products = <<>>
    /\ IdlePipeline

ExtractItem ==
    /\ pc = "item"
    /\ product' \in _extract_product_from_api(item)
    /\ pc' = "item_done"
    /\ UNCHANGED <<max_pages, min_discount, page, offset, total, data, products,
                   all_products, trace, stop, result, item>>

SpecItem == InitItem /\ [][ExtractItem]_vars

(* parse_products_from_api on one page *)

Page(tot, results) == [tag |-> "dict", total |-> tot, results |-> results]

\* Mutant: an item that raises ends the page; the items before it are kept.
RECURSIVE ParseLoopAborting(_, _, _)
ParseLoopAborting(results, i, acc) ==
    IF i > Len(results) THEN {acc}
    ELSE UNION { CASE out.tag = "product"
                        -> ParseLoopAborting(results, i + 1, Append(acc, out.product))
                   [] out.tag = "raise" -> {acc}
                   [] OTHER -> ParseLoopAborting(results, i + 1, acc) :
                 out \in _extract_product_from_api(results[i]) }

\* The loop of lines 229-236 from item i on, acc being the products so far:
\* a Product is appended, None and an exception skip the item.
RECURSIVE ParseLoop(_, _, _)
ParseLoop(results, i, acc) ==
    IF i > Len(results) THEN {acc}
    ELSE UNION { IF out.tag = "product"
                 THEN ParseLoop(results, i + 1, Append(acc, out.product))
                 ELSE ParseLoop(results, i + 1, acc) :
                 out \in _extract_product_from_api(results[i]) }

\* The possible lists returned by parse_products_from_api(data)
parse_products_from_api(d) ==
    IF d.results = <<>> THEN {<<>>} ELSE ParseLoop(d.results, 1, <<>>)

\* Representative items: discounts of 10, 60, 75 and 0 percent, a tie of the
\* rounding (12.5 percent), rejected items and items that raise.
Item10 == Plain(Num(9), NoSale, Num(10), NoPrices)
Item60 == Plain(None, Sale(Num(2), Num(5)), None, NoPrices)
Item60b ==
    Item(Text(<<" ", "b">>), Link("p"), NoLink, Num(4), NoSale, Num(10), NoPrices)
Item75 ==
    Plain(Num(1), NoSale, None,
          Prices(<<PriceEntry("promotion", Num(1)), PriceEntry("standard", Num(4))>>))
Item0 == Item(Text(<<"c">>), NoLink, Link("l"), Num(5), NoSale, Num(5), NoPrices)
ItemTie == Plain(Num(7), NoSale, Num(8), NoPrices)
ItemNoPrice == Plain(Num(0), NoSale, Num(3), NoPrices)
ItemBlankTitle == Item(Text(<<" ">>), NoLink, NoLink, Num(1), NoSale, None, NoPrices)
ItemNullTitle == Item(NullText, NoLink, NoLink, Num(1), NoSale, None, NoPrices)
ItemTextPrice == Plain(NonNum, NoSale, None, NoPrices)

SampleItems ==
    {Item10, Item60, Item75, ItemTie, ItemNoPrice, ItemBlankTitle,
     ItemNullTitle, ItemTextPrice, NotAnObject}

InitParse ==
    /\ pc = "parse"
    /\ \E r \in SeqsUpTo(SampleItems, MaxItems) : data = Page(None, r)
    /\ products = <<>>
    /\ IdlePipeline
    /\ IdleItem

ParsePage ==
    /\ pc = "parse"
    /\ products' \in parse_products_from_api(data)
    /\ pc' = "parse_done"
    /\ UNCHANGED <<max_pages, min_discount, page, offset, total, data,
                   all_products, trace, stop, result, item, product>>

SpecParse == InitParse /\ [][ParsePage]_vars

-----------------------------------------------------------------------------
(* scrape_mercadolivre: the pagination loop, then filter and sort *)

\* paging.total of a response: missing (get gives the default 0), null, or
\* a count
NullTotal == [tag |-> "null", val |-> 0]
Totals ==
    {None, NullTotal, Num(0)}
        \cup {Num(k * ITEMS_PER_PAGE + d) : k \in 1 .. MaxTotalPages, d \in {0, 1}}

\* results of a response: empty, only a rejected item, and pages that yield
\* products (with a raising item in between, and with equal discounts)
SampleResults ==
    { <<>>,
      <<ItemNoPrice>>,
      <<Item10>>,
      <<Item60, ItemNullTitle, Item75>>,
      <<Item0, Item60b>> }

\* What fetch_search_page can return: None on any network, HTTP or JSON
\* error, the decoded response otherwise
Responses == {NoData} \cup {Page(tot, r) : tot \in Totals, r \in SampleResults}

MinDiscounts == {0, 50, 60, MaxDiscountLimit}

Request(off, lim) == [op |-> "request", offset |-> off, limit |-> lim]
Pause == [op |-> "pause", offset |-> 0, limit |-> 0]

Init ==
    /\ pc = "loop"
    /\ max_pages \in 1 .. MaxPagesLimit
    /\ min_discount \in MinDiscounts
    /\ page = 0
    /\ offset = 0
    /\ total = None
    /\ data = NoData
    /\ products = <<>>
    /\ all_products = <<>>
    /\ trace = <<>>
    /\ stop = "none"
    /\ result = <<>>
    /\ IdleItem

\* Mutant: the offset advances by one item per page.
PageOffsetByOne(pg) == pg

\* offset = page * ITEMS_PER_PAGE
PageOffset(pg) == pg * ITEMS_PER_PAGE

\* Mutant: the comparison is strict.
ReachedTotalStrict(off, tot) == off + ITEMS_PER_PAGE > tot

\* offset + ITEMS_PER_PAGE >= total
ReachedTotal(off, tot) == off + ITEMS_PER_PAGE >= tot

\* Mutant: the pause also follows the last page.
DelayDueAlways(pg, mp) == TRUE

\* page < max_pages - 1
DelayDue(pg, mp) == pg < mp - 1

\* paging.get("total", 0)
TotalOf(d) == IF d.total.tag = "none" THEN Num(0) ELSE d.total

\* Lines 312-314: the next iteration of `for page in range(max_pages)`
\* requests its page.
fetch_search_page ==
    /\ pc = "loop"
    /\ page < max_pages
    /\ offset' = PageOffset(page)
    /\ trace' = Append(trace, Request(offset', ITEMS_PER_PAGE))
    /\ data' \in Responses
    /\ pc' = "page"
    /\ UNCHANGED <<max_pages, min_discount, page, total, products, all_products,
                   stop, result, item, product>>

\* The range is exhausted.
LoopEnd ==
    /\ pc = "loop"
    /\ page >= max_pages
    /\ pc' = "filter"
    /\ stop' = "page_limit"
    /\ UNCHANGED <<max_pages, min_discount, page, offset, total, data, products,
                   all_products, trace, result, item, product>>

\* Mutant: a failed fetch discards what was accumulated.
FetchFailedDiscarding ==
    /\ pc = "page"
    /\ data = NoData
    /\ pc' = "filter"
    /\ stop' = "fetch_failed"
    /\ all_products' = <<>>
    /\ UNCHANGED <<max_pages, min_discount, page, offset, total, data, products,
                   trace, result, item, product>>

\* Lines 316-318: data is None.
FetchFailed ==
    /\ pc = "page"
    /\ data = NoData
    /\ pc' = "filter"
    /\ stop' = "fetch_failed"
    /\ UNCHANGED <<max_pages, min_discount, page, offset, total, data, products,
                   all_products, trace, result, item, product>>

\* Mutant: a response reporting total 0 does not end the loop.
NoResultsContinuing ==
    /\ pc = "page"
    /\ data # NoData
    /\ total' = TotalOf(data)
    /\ total' = Num(0)
    /\ pc' = "loop"
    /\ page' = page + 1
    /\ UNCHANGED <<max_pages, min_discount, offset, data, products,
                   all_products, trace, stop, result, item, product>>

\* Lines 321-326: the response reports no match.
NoResults ==
    /\ pc = "page"
    /\ data # NoData
    /\ total' = TotalOf(data)
    /\ total' = Num(0)
    /\ pc' = "filter"
    /\ stop' = "no_results"
    /\ UNCHANGED <<max_pages, min_discount, page, offset, data, products,
                   all_products, trace, result, item, product>>

\* Lines 328-332: the page yields no product.
EmptyPage ==
    /\ pc = "page"
    /\ data # NoData
    /\ total' = TotalOf(data)
    /\ total' # Num(0)
    /\ products' \in parse_products_from_api(data)
    /\ products' = <<>>
    /\ pc' = "filter"
    /\ stop' = "empty_page"
    /\ UNCHANGED <<max_pages, min_discount, page, offset, data, all_products,
                   trace, result, item, product>>

\* Lines 334-343: the page is accumulated; then the loop ends when the
\* reported total is reached, pauses before the next page, or falls through
\* to the end of the range.  Comparing with a null total raises TypeError.
Accumulate ==
    /\ pc = "page"
    /\ data # NoData
    /\ total' = TotalOf(data)
    /\ total' # Num(0)
    /\ products' \in parse_products_from_api(data)
    /\ products' # <<>>
    /\ all_products' = all_products \o products'
    /\ \/ /\ total'.tag = "null"
          /\ pc' = "raised"
          /\ stop' = "error"
          /\ page' = page
       \/ /\ total'.tag = "num"
          /\ ReachedTotal(offset, total'.val)
          /\ pc' = "filter"
          /\ stop' = "all_fetched"
          /\ page' = page
       \/ /\ total'.tag = "num"
          /\ ~ReachedTotal(offset, total'.val)
          /\ DelayDue(page, max_pages)
          /\ pc' = "delay"
          /\ UNCHANGED <<stop, page>>
       \/ /\ total'.tag = "num"
          /\ ~ReachedTotal(offset, total'.val)
          /\ ~DelayDue(page, max_pages)
          /\ pc' = "loop"
          /\ page' = page + 1
          /\ UNCHANGED stop
    /\ UNCHANGED <<max_pages, min_discount, offset, data, trace, result,
                   item, product>>

\* Lines 97-101 and the next turn of the loop
_respectful_delay ==
    /\ pc = "delay"
    /\ trace' = Append(trace, Pause)
    /\ page' = page + 1
    /\ pc' = "loop"
    /\ UNCHANGED <<max_pages, min_discount, offset, total, data, products,
                   all_products, stop, result, item, product>>

\* Mutant: the threshold is exclusive.
FilterExclusive(all, md) == SelectSeq(all, LAMBDA p : p.discount_percent > md)

\* [p for p in all_products if p.discount_percent >= min_discount]
Filter(all, md) == SelectSeq(all, LAMBDA p : p.discount_percent >= md)

\* list.sort(key=discount_percent, reverse=True) is stable: p goes behind
\* every element whose discount is at least its own.
RECURSIVE InsertDesc(_, _)
InsertDesc(sorted, p) ==
    IF sorted = <<>> THEN <<p>>
    ELSE IF Head(sorted).discount_percent >= p.discount_percent
         THEN <<Head(sorted)>> \o InsertDesc(Tail(sorted), p)
         ELSE <<p>> \o sorted

\* Mutant: reverse=True is missing.
RECURSIVE SortAscending(_)
SortAscending(s) ==
    IF s = <<>> THEN <<>>
    ELSE LET rest == SortAscending(SubSeq(s, 1, Len(s) - 1))
             p == s[Len(s)]
             RECURSIVE Ins(_)
             Ins(r) == IF r = <<>> THEN <<p>>
                       ELSE IF Head(r).discount_percent <= p.discount_percent
                            THEN <<Head(r)>> \o Ins(Tail(r))
                            ELSE <<p>> \o r
         IN  Ins(rest)

RECURSIVE SortDesc(_)
SortDesc(s) ==
    IF s = <<>> THEN <<>>
    ELSE InsertDesc(SortDesc(SubSeq(s, 1, Len(s) - 1)), s[Len(s)])

\* Lines 345-356: filter, sort, to_dict
FilterAndSort ==
    /\ pc = "filter"
    /\ result' = SortDesc(Filter(all_products, min_discount))
    /\ pc' = "done"
    /\ UNCHANGED <<max_pages, min_discount, page, offset, total, data, products,
                   all_products, trace, stop, item, product>>

HandlePage == FetchFailed \/ NoResults \/ EmptyPage \/ Accumulate

Next ==
    \/ fetch_search_page
    \/ LoopEnd
    \/ HandlePage
    \/ _respectful_delay
    \/ FilterAndSort

Spec == Init /\ [][Next]_vars

\* The filter and sort stage on any accumulated list and any threshold
SampleProducts ==
    { out.product :
        out \in UNION { _extract_product_from_api(it) :
                          it \in {Item10, Item60, Item60b, Item75, Item0} } }

InitFilter ==
    /\ pc = "filter"
    /\ max_pages = MAX_PAGES
    /\ min_discount \in 0 .. MaxDiscountLimit
    /\ all_products \in SeqsUpTo(SampleProducts, MaxProducts)
    /\ page = 0
    /\ offset = 0
    /\ total = None
    /\ data = NoData
    /\ products = <<>>
    /\ trace = <<>>
    /\ stop = "none"
    /\ result = <<>>
    /\ IdleItem

SpecFilter == InitFilter /\ [][FilterAndSort]_vars

-----------------------------------------------------------------------------
(* Properties of _extract_product_from_api *)

IsPositive(v) == v.tag = "num" /\ v.val > 0

Produced == pc = "item_done" /\ product.tag = "product"

\* The raw title is a non-empty string
NonEmptyTitle(it) == it.kind = "dict" /\ it.title.tag = "str" /\ it.title.val # <<>>

\* The title passes the check of lines 246-248
HasTitle(it) ==
    /\ it.kind = "dict"
    /\ it.title.tag = "str"
    /\ \E i \in 1 .. Len(it.title.val) : it.title.val[i] # " "

\* The first positive source of the original price in the order direct
\* original_price, sale_price regular amount, first positive "standard"
\* entry of the prices collection; 0 when there is none.
FirstPositiveSource(it) ==
    LET std == IF it.prices.tag = "dict"
               THEN {i \in 1 .. Len(it.prices.prices) :
                        /\ it.prices.prices[i].type = "standard"
                        /\ IsPositive(it.prices.prices[i].amount)}
               ELSE {}
    IN  IF IsPositive(it.original_price) THEN it.original_price.val
        ELSE IF it.sale_price.tag = "dict" /\ IsPositive(it.sale_price.regular_amount)
        THEN it.sale_price.regular_amount.val
        ELSE IF std # {}
        THEN it.prices.prices[CHOOSE i \in std : \A j \in std : i <= j].amount.val
        ELSE 0

\* d is an integer nearest to (o - c) * 100 / o
NearestPercent(d, o, c) ==
    LET diff == d * o - (o - c) * 100
    IN  2 * diff <= o /\ -2 * diff <= o

\* C5: every Product produced by _extract_product_from_api has
\* discount_percent in 0..100; it is 0 when no original price was found or
\* the found one is <= the current price; for original > current > 0 it is
\* the percentage (original - current) / original * 100 rounded to a nearest
\* integer (100 and 80 give 20, 99 and 66 give 33).
C5_DiscountPercent ==
    Produced =>
        LET d == product.product.discount_percent
            c == product.product.price
            o == FirstPositiveSource(item)
        IN  /\ d \in 0 .. 100
            /\ (o = 0 \/ o <= c) => d = 0
            /\ (o > c /\ c > 0) => NearestPercent(d, o, c)
            /\ (o = 100 /\ c = 80) => d = 20
            /\ (o = 99 /\ c = 66) => d = 33

C5_Witness ==
    /\ Produced
    /\ FirstPositiveSource(item) = 99
    /\ product.product.price = 66
    /\ product.product.discount_percent = 33

\* C6: for an item with a non-empty title, a produced Product carries the
\* direct price when that is present and positive, otherwise the nested
\* sale_price amount when that is present and positive; when neither is
\* present and positive no Product is produced; so every Product has
\* price > 0.
C6_CurrentPrice ==
    pc = "item_done" =>
        LET direct == IsPositive(item.price)
            nested == item.sale_price.tag = "dict" /\ IsPositive(item.sale_price.amount)
        IN  /\ product.tag = "product" => product.product.price > 0
            /\ NonEmptyTitle(item) =>
                  /\ (product.tag = "product" /\ direct)
                        => product.product.price = item.price.val
                  /\ (product.tag = "product" /\ ~direct /\ nested)
                        => product.product.price = item.sale_price.amount.val
                  /\ (~direct /\ ~nested) => product.tag # "product"

C6_Witness ==
    /\ Produced
    /\ item.price.tag = "num" /\ item.price.val <= 0
    /\ product.product.price = item.sale_price.amount.val
    /\ product.product.price = 2

\* C7: the original price of a produced Product is the first positive
\* source in the order original_price, sale_price regular amount, "standard"
\* entry of prices, kept only when strictly greater than the current price:
\* original_price is None or strictly greater than price.  A lower-priority
\* source is not read once a higher one matched: a string in it raises
\* nothing.
C7_OriginalPrice ==
    /\ Produced =>
        LET o == FirstPositiveSource(item)
            p == product.product
        IN  /\ p.original_price = IF o > p.price THEN Num(o) ELSE None
            /\ p.original_price = None \/ p.original_price.val > p.price
    /\ ( /\ pc = "item_done"
         /\ HasTitle(item)
         /\ IsPositive(item.price)
         /\ \/ IsPositive(item.original_price)
            \/ /\ ~Truthy(item.original_price)
               /\ item.sale_price.tag = "dict"
               /\ IsPositive(item.sale_price.regular_amount) )
       => product.tag = "product"

C7_Witness ==
    /\ Produced
    /\ ~IsPositive(item.original_price)
    /\ item.sale_price.tag = "dict"
    /\ ~IsPositive(item.sale_price.regular_amount)
    /\ Len(item.prices.prices) = 2
    /\ item.prices.prices[1].type = "standard"
    /\ ~IsPositive(item.prices.prices[1].amount)
    /\ product.product.original_price = item.prices.prices[2].amount
    /\ product.product.original_price.val > product.product.price

-----------------------------------------------------------------------------
(* Properties of parse_products_from_api *)

\* The items of results that yield a Product, by position
KeptIndices(results) ==
    SelectSeq([i \in 1 .. Len(results) |-> i],
              LAMBDA i : \E out \in _extract_product_from_api(results[i]) :
                              out.tag = "product")

\* C8: an item whose processing raises or that is rejected is skipped without
\* aborting the page: the returned list holds exactly the products of the
\* other items of the page, in their original order.
C8_ItemsSkipped ==
    pc = "parse_done" =>
        LET kept == KeptIndices(data.results)
        IN  /\ Len(products) = Len(kept)
            /\ \A k \in 1 .. Len(kept) :
                   Extracted(products[k])
                       \in _extract_product_from_api(data.results[kept[k]])

C8_Witness ==
    /\ pc = "parse_done"
    /\ data.results = <<Item10, ItemNullTitle, Item60>>
    /\ Len(products) = 2
    /\ products[1].discount_percent = 10
    /\ products[2].discount_percent = 60

-----------------------------------------------------------------------------
(* Properties of scrape_mercadolivre *)

Range(s) == {s[i] : i \in 1 .. Len(s)}
Count(s, x) == Cardinality({i \in 1 .. Len(s) : s[i] = x})
Last(s) == s[Len(s)]
Discounts(s) == [i \in 1 .. Len(s) |-> s[i].discount_percent]
Requests == SelectSeq(trace, LAMBDA e : e.op = "request")

\* r holds, as a multiset, exactly the products of all with a discount of at
\* least md
IsFilterOf(r, all, md) ==
    \A p \in Range(all) \cup Range(r) :
        Count(r, p) = IF p.discount_percent >= md THEN Count(all, p) ELSE 0

NonIncreasing(r) ==
    \A i \in 1 .. Len(r) - 1 : r[i].discount_percent >= r[i + 1].discount_percent

\* The last request was answered, and the answer is the one in data
Answered == trace # <<>> /\ pc # "page"

\* The last request failed at the network layer
LastFetchFailed == trace # <<>> /\ data = NoData

\* The last response reports total 0 or carries no total
ZeroTotalReported == trace # <<>> /\ data # NoData /\ TotalOf(data) = Num(0)

\* The last response was accumulated
LastAccumulated ==
    /\ Answered
    /\ data # NoData
    /\ TotalOf(data) # Num(0)
    /\ <<>> \notin parse_products_from_api(data)

\* C1: when the fetch of a page returns None no later request is made, and
\* the list returned is built from exactly the products accumulated before,
\* filtered by min_discount and sorted; nothing is raised.
C1_FetchFailure ==
    [][ LastFetchFailed =>
          /\ trace' = trace
          /\ all_products' = all_products
          /\ pc' \in {"filter", "done"}
          /\ pc' = "done" =>
                /\ IsFilterOf(result', all_products, min_discount)
                /\ NonIncreasing(result') ]_vars

C1_Witness ==
    /\ pc = "done"
    /\ LastFetchFailed
    /\ Len(Requests) = 3
    /\ Len(all_products) = 3
    /\ Len(result) = 2

\* C2: the list returned contains, as a multiset, exactly the accumulated
\* products whose discount_percent >= min_discount, for every min_discount in
\* 0..100 (min_discount 50 with discounts 10, 60, 75 yields 75, 60).
C2_FilterExact ==
    pc = "done" =>
        /\ IsFilterOf(result, all_products, min_discount)
        /\ (min_discount = 50 /\ Discounts(all_products) = <<10, 60, 75>>)
              => Discounts(result) = <<75, 60>>

C2_Witness ==
    /\ pc = "done"
    /\ min_discount = 50
    /\ Discounts(all_products) = <<10, 60, 75>>
    /\ Discounts(result) = <<75, 60>>

\* C3: the list returned is non-increasing in discount_percent.
C3_SortedDescending == pc = "done" => NonIncreasing(result)

C3_Witness ==
    /\ pc = "done"
    /\ Len(Requests) = 2
    /\ Discounts(all_products) = <<10, 60, 75>>
    /\ Discounts(result) = <<75, 60, 10>>

\* C4 as claimed: whenever a response reports total 0 (or no total) the list
\* returned is empty.
C4_EmptyResult == (pc = "done" /\ ZeroTotalReported) => result = <<>>

\* C4 amended: when a response reports total 0 (or has no total key) no
\* further request is made and the list returned is built from the products
\* accumulated from the earlier pages, filtered and sorted; it is empty when
\* the response is the first page's.
C4_StopsOnZeroTotal ==
    [][ ZeroTotalReported =>
          /\ trace' = trace
          /\ all_products' = all_products
          /\ pc' \in {"filter", "done"}
          /\ pc' = "done" =>
                /\ IsFilterOf(result', all_products, min_discount)
                /\ NonIncreasing(result')
                /\ Len(Requests) = 1 => result' = <<>> ]_vars

C4_Witness ==
    /\ pc = "done"
    /\ ZeroTotalReported
    /\ Len(Requests) = 2
    /\ min_discount = 50
    /\ Discounts(result) = <<75, 60>>

\* C9: the k-th request (from 0) has offset 50*k and limit 50; at most
\* max_pages requests are made; no offset is requested twice; and after a
\* page at offset o is accumulated no further request is made when
\* o + 50 >= the total that page reported.
C9_Pagination ==
    /\ [](/\ \A k \in 1 .. Len(Requests) :
                /\ Requests[k].offset = 50 * (k - 1)
                /\ Requests[k].limit = 50
          /\ Len(Requests) <= max_pages
          /\ \A j, k \in 1 .. Len(Requests) :
                Requests[j].offset = Requests[k].offset => j = k)
    /\ [][ ( /\ LastAccumulated
             /\ data.total.tag = "num"
             /\ Last(Requests).offset + 50 >= data.total.val )
           => trace' = trace ]_vars

C9_Witness ==
    /\ pc = "done"
    /\ max_pages = 5
    /\ Len(Requests) = 3
    /\ LastAccumulated
    /\ data.total = Num(150)

\* C10: the pause happens only between pages: the first event is a request,
\* requests and pauses alternate, and once pagination has ended (by the page
\* limit, the total reached, total 0, an empty page, a failed fetch or an
\* exception) the last event is a request.
C10_PauseBetweenPages ==
    /\ trace # <<>> => trace[1].op = "request"
    /\ \A i \in 1 .. Len(trace) - 1 : trace[i].op # trace[i + 1].op
    /\ pc \in {"filter", "done", "raised"}
          => (trace # <<>> /\ Last(trace).op = "request")

C10_Witness ==
    /\ pc = "done"
    /\ stop = "page_limit"
    /\ max_pages = 3
    /\ [i \in 1 .. Len(trace) |-> trace[i].op]
          = <<"request", "pause", "request", "pause", "request">>

====
